---- MODULE Spec2Model ----
(***************************************************************************)
(* floodgate.common.pydantic_helpers: the FieldConverter registry and its  *)
(* dispatcher, the required_xor and maybe_relative_path validators and the *)
(* recursive forward-reference resolver.                                   *)
(***************************************************************************)
EXTENDS Integers, Sequences, FiniteSets, TLC

VARIABLES
    classdict,        \* cls.__dict__ of each converter class: its own members, in order
    pyd_converters,   \* the _pyd_converters attribute stored in each class's own __dict__
    last,             \* what the latest _pyd_convert call did
    threads,          \* each thread's position inside its _pyd_convert call
    fields,           \* required_xor: the field names the validator is attached to
    xor_other_fields, \* required_xor: the field names of the other side
    values,           \* the sibling values validated so far
    xlast,            \* what the latest required_xor validation did
    root_path,        \* maybe_relative_path: the root captured by the validator
    validated,        \* per path field, the latest input and what validate_fn returned
    tree,             \* the model types and how they nest
    stack,            \* the frames of update_forward_refs_recursive, innermost last
    log               \* the models update_forward_refs was called on, in call order

convVars == <<classdict, pyd_converters, last>>
xorVars == <<fields, xor_other_fields, values, xlast>>
pathVars == <<root_path, validated>>
refVars == <<tree, stack, log>>

vars == <<convVars, threads, xorVars, pathVars, refVars>>

----------------------------------------------------------------------------
(* Bounds of the model *)

MaxMembers == 2        \* members declared in T's own namespace
MaxParentMembers == 1  \* members declared in P's own namespace
MaxThreads == 2        \* threads dispatching on T concurrently
MaxThreadMembers == 2  \* members of T when threads dispatch concurrently
MaxFields == 3         \* fields of the model required_xor validates
MaxLen == 3            \* characters of a path given as a string
MaxNodes == 4          \* model types in a nesting tree

----------------------------------------------------------------------------
(* The parts of the state a specification does not use *)

NoXor == fields = {} /\ xor_other_fields = {} /\ values = <<>> /\ xlast = <<>>

NoPath == root_path = <<>> /\ validated = <<>>

NoRefs == tree = <<>> /\ stack = <<>> /\ log = <<>>

----------------------------------------------------------------------------
(* Converter classes: class P(FieldConverter) and class T(P) *)

Classes == {"P", "T"}

\* cls.__mro__ below FieldConverter itself
Mro(c) == IF c = "T" THEN <<"T", "P">> ELSE <<"P">>

\* Runtime types; bool is a strict subtype of int
Types == {"int", "bool", "str"}

IsSubtype(s, t) == s = t \/ (s = "bool" /\ t = "int")

\* One value of each exact runtime type
Values == {[type |-> t] : t \in Types}

NoValue == [type |-> "none"]

\* Parameter lists (after cls) a member may declare
ArgLists == {<<>>} \cup {<<t>> : t \in Types} \cup {<<"int", "str">>}

\* What a class body may declare
MemberShapes ==
    {[kind |-> "classmethod", prefixed |-> TRUE, args |-> a] : a \in ArgLists}
    \cup {[kind |-> "function", prefixed |-> TRUE, args |-> <<"int">>],
          [kind |-> "classmethod", prefixed |-> FALSE, args |-> <<"int">>]}

SeqsUpTo(S, n) == UNION {[1..k -> S] : k \in 0..n}

\* member.__func__ of the i-th member of class c
Fn(c, i) == [cls |-> c, idx |-> i]

NoFn == [cls |-> "none", idx |-> 0]

\* fn(cls, value): the converter's result, uninterpreted
Apply(fn, c, v) == [fn |-> fn, cls |-> c, value |-> v]

NoResult == [fn |-> NoFn, cls |-> "none", value |-> NoValue]

\* converters: dict[type, T_Converter] = {}
EmptyReg == [t \in {} |-> NoFn]

\* converters[converter_type] = fn
Put(converters, k, fn) ==
    [t \in DOMAIN converters \cup {k} |-> IF t = k THEN fn ELSE converters[t]]

\* _pyd_converters: dict[type, T_Converter] = None
NoneCache == [has |-> FALSE, reg |-> EmptyReg]

NoConv ==
    /\ classdict = <<>> /\ pyd_converters = <<>> /\ last = <<>>
    /\ threads = <<>>

----------------------------------------------------------------------------
(* FieldConverter._pyd_get_converters *)

\* isinstance(member, classmethod)
IsClassmethod(member) == member.kind = "classmethod"

\* name.startswith(cls._pyd_converter_prefix)
HasPrefix(member) == member.prefixed

\* floodgate.common.typing.get_function_args_annotations: the annotations of
\* the parameters a function declares after cls, in declaration order
get_function_args_annotations(member) == member.args

\* One pass of the loop body over the i-th member of c's own namespace
ProcessMember(c, i, converters) ==
    LET member == classdict[c][i] IN
    IF ~IsClassmethod(member) THEN [exc |-> "none", converters |-> converters]
    ELSE IF ~HasPrefix(member) THEN [exc |-> "none", converters |-> converters]
    ELSE LET fn_args_types == get_function_args_annotations(member) IN
         IF Len(fn_args_types) # 1
         THEN [exc |-> "FieldConverterError", converters |-> converters]
         ELSE LET converter_type == fn_args_types[1] IN
              IF converter_type \in DOMAIN converters
              THEN [exc |-> "FieldConverterError", converters |-> converters]
              ELSE [exc |-> "none",
                    converters |-> Put(converters, converter_type, Fn(c, i))]

\* for name, member in cls.__dict__.items(): ... , from the i-th member on
RECURSIVE ScanMembers(_, _, _)
ScanMembers(c, i, converters) ==
    IF i > Len(classdict[c]) THEN [exc |-> "none", converters |-> converters]
    ELSE LET step == ProcessMember(c, i, converters) IN
         IF step.exc # "none" THEN step
         ELSE ScanMembers(c, i + 1, step.converters)

\* cls._pyd_converters read through the MRO: the first class of the MRO
\* whose own __dict__ holds the attribute, else FieldConverter's None
RECURSIVE LookupFrom(_, _, _)
LookupFrom(mro, k, cache) ==
    IF k > Len(mro) THEN NoneCache
    ELSE IF cache[mro[k]].has THEN cache[mro[k]]
    ELSE LookupFrom(mro, k + 1, cache)

\* Mutant: the guard written as "if cls._pyd_converters:", so that an empty
\* mapping counts as nothing cached
GetAttrTruthy(c, cache) ==
    LET found == LookupFrom(Mro(c), 1, cache) IN
    IF found.has /\ DOMAIN found.reg # {} THEN found ELSE NoneCache

GetAttr(c, cache) == LookupFrom(Mro(c), 1, cache)

\* cls._pyd_get_converters(): the exception raised if any, the mapping
\* returned, the attribute store afterwards, whether members were scanned,
\* and whether the mapping returned was found on an ancestor of cls
pyd_get_converters(c) ==
    LET cur == GetAttr(c, pyd_converters) IN
    IF cur.has
    THEN [exc |-> "none", ret |-> cur.reg, cache |-> pyd_converters,
          scanned |-> FALSE, inherited |-> ~pyd_converters[c].has]
    ELSE LET s == ScanMembers(c, 1, EmptyReg) IN
         IF s.exc # "none"
         THEN [exc |-> s.exc, ret |-> EmptyReg, cache |-> pyd_converters,
               scanned |-> TRUE, inherited |-> FALSE]
         ELSE LET stored == [pyd_converters EXCEPT
                                ![c] = [has |-> TRUE, reg |-> s.converters]] IN
              [exc |-> "none", ret |-> GetAttr(c, stored).reg,
               cache |-> stored, scanned |-> TRUE, inherited |-> FALSE]

----------------------------------------------------------------------------
(* FieldConverter._pyd_convert *)

\* Mutant: the converter of a registered supertype accepted, as an
\* isinstance-based lookup would
LookupBySubclass(converters, v) ==
    IF \E t \in DOMAIN converters : IsSubtype(v.type, t)
    THEN [exc |-> "none",
          fn |-> converters[CHOOSE t \in DOMAIN converters : IsSubtype(v.type, t)]]
    ELSE [exc |-> "TypeError", fn |-> NoFn]

\* fn = converters[type(value)], KeyError turned into TypeError
Lookup(converters, v) ==
    IF v.type \in DOMAIN converters
    THEN [exc |-> "none", fn |-> converters[v.type]]
    ELSE [exc |-> "TypeError", fn |-> NoFn]

NoCall ==
    [cls |-> "none", value |-> NoValue, exc |-> "none", result |-> NoResult,
     invoked |-> <<>>, scanned |-> FALSE, inherited |-> FALSE,
     converters |-> EmptyReg]

\* cls._pyd_convert(value), as one call
pyd_convert(c, v) ==
    LET g == pyd_get_converters(c) IN
    /\ pyd_converters' = g.cache
    /\ IF g.exc # "none"
       THEN last' = [cls |-> c, value |-> v, exc |-> g.exc,
                     result |-> NoResult, invoked |-> <<>>,
                     scanned |-> g.scanned,
                     inherited |-> g.inherited, converters |-> EmptyReg]
       ELSE LET l == Lookup(g.ret, v) IN
            IF l.exc # "none"
            THEN last' = [cls |-> c, value |-> v, exc |-> l.exc,
                          result |-> NoResult, invoked |-> <<>>,
                          scanned |-> g.scanned,
                     inherited |-> g.inherited, converters |-> g.ret]
            ELSE last' = [cls |-> c, value |-> v, exc |-> "none",
                          result |-> Apply(l.fn, c, v), invoked |-> <<l.fn>>,
                          scanned |-> g.scanned,
                     inherited |-> g.inherited, converters |-> g.ret]
    /\ UNCHANGED <<classdict, threads, xorVars, pathVars, refVars>>

Convert == \E c \in Classes, v \in Values : pyd_convert(c, v)

InitConv ==
    /\ classdict \in {[c \in Classes |-> IF c = "P" THEN p ELSE t] :
                         p \in SeqsUpTo(MemberShapes, MaxParentMembers),
                         t \in SeqsUpTo(MemberShapes, MaxMembers)}
    /\ pyd_converters = [c \in Classes |-> NoneCache]
    /\ last = NoCall
    /\ threads = <<>>
    /\ NoXor /\ NoPath /\ NoRefs

NextConv == Convert

SpecConv == InitConv /\ [][NextConv]_vars

----------------------------------------------------------------------------
(* What a class declares, read off its namespace without running the scan *)

\* The prefix-named classmethods of c's own namespace
OwnConverters(c) ==
    {i \in 1..Len(classdict[c]) :
        classdict[c][i].kind = "classmethod" /\ classdict[c][i].prefixed}

HasBadArity(c) == \E i \in OwnConverters(c) : Len(classdict[c][i].args) # 1

HasDuplicate(c) ==
    \E i, j \in OwnConverters(c) :
        /\ i # j
        /\ Len(classdict[c][i].args) = 1 /\ Len(classdict[c][j].args) = 1
        /\ classdict[c][i].args[1] = classdict[c][j].args[1]

OwnValid(c) == ~HasBadArity(c) /\ ~HasDuplicate(c)

OwnKeys(c) == {classdict[c][i].args[1] : i \in OwnConverters(c)}

\* The registry of a valid class c: each annotation to the one member carrying it
OwnRegistry(c) ==
    [t \in OwnKeys(c) |->
        Fn(c, CHOOSE i \in OwnConverters(c) : classdict[c][i].args[1] = t)]

Called(c) == last.cls = c

----------------------------------------------------------------------------
(* Claims about the registry and the dispatcher, under SpecConv *)

\* C1: for a type T whose own converters are all valid and a value whose
\* exact type is a key of T's registry, T._pyd_convert(v) returns fn(T, v)
\* for the converter registered for type(v), invoking it once and no other.
C1_DispatchCallsOwnConverter ==
    \A c \in Classes :
        (Called(c) /\ OwnValid(c) /\ last.value.type \in OwnKeys(c)) =>
            /\ last.exc = "none"
            /\ last.invoked = <<OwnRegistry(c)[last.value.type]>>
            /\ last.result = Apply(OwnRegistry(c)[last.value.type], c, last.value)

\* C1 restricted to calls that did not find an ancestor's cached mapping
C1_WithoutInheritedCache ==
    \A c \in Classes :
        (Called(c) /\ ~last.inherited /\ OwnValid(c)
           /\ last.value.type \in OwnKeys(c)) =>
            /\ last.exc = "none"
            /\ last.invoked = <<OwnRegistry(c)[last.value.type]>>
            /\ last.result = Apply(OwnRegistry(c)[last.value.type], c, last.value)

\* C2: if type(v) is not itself a key of T's registry, T._pyd_convert(v)
\* fails with TypeError and calls no converter, even when a strict supertype
\* of type(v) is a key.
C2_UnregisteredTypeIsTypeError ==
    \A c \in Classes :
        (Called(c) /\ OwnValid(c) /\ last.value.type \notin OwnKeys(c)) =>
            last.exc = "TypeError" /\ last.invoked = <<>>

\* C2 restricted to calls that did not find an ancestor's cached mapping
C2_WithoutInheritedCache ==
    \A c \in Classes :
        (Called(c) /\ ~last.inherited /\ OwnValid(c)
           /\ last.value.type \notin OwnKeys(c)) =>
            last.exc = "TypeError" /\ last.invoked = <<>>

\* A dispatch of a value whose strict supertype is registered, not its own type
C2_SupertypeRegistered ==
    \E c \in Classes :
        /\ Called(c) /\ ~last.inherited /\ OwnValid(c)
        /\ last.value.type \notin OwnKeys(c)
        /\ \E t \in OwnKeys(c) : IsSubtype(last.value.type, t)
        /\ last.exc = "TypeError"

\* C3: the registry T._pyd_convert uses holds exactly the prefix-named
\* classmethods declared on T itself, whatever the order in which T and its
\* parent P were first dispatched.
C3_RegistryIsOwn ==
    \A c \in Classes :
        (Called(c) /\ last.exc # "FieldConverterError") =>
            OwnValid(c) /\ last.converters = OwnRegistry(c)

\* C3 for the mapping stored on a class itself
C3_StoredRegistryIsOwn ==
    \A c \in Classes :
        pyd_converters[c].has =>
            OwnValid(c) /\ pyd_converters[c].reg = OwnRegistry(c)

\* C4: a type with two converters annotated with the same type fails to
\* build with FieldConverterError, in every declaration order, and caches
\* no registry.
C4_DuplicateFails ==
    \A c \in Classes :
        HasDuplicate(c) =>
            /\ ~pyd_converters[c].has
            /\ Called(c) => last.exc = "FieldConverterError"

\* C4 restricted to calls that did not find an ancestor's cached mapping
C4_WithoutInheritedCache ==
    \A c \in Classes :
        HasDuplicate(c) =>
            /\ ~pyd_converters[c].has
            /\ (Called(c) /\ ~last.inherited) => last.exc = "FieldConverterError"

\* C5: a type with a prefix-named classmethod of zero or two-plus value
\* parameters fails to build with FieldConverterError, wherever the member
\* stands and whatever else the type declares.
C5_BadArityFails ==
    \A c \in Classes :
        (Called(c) /\ HasBadArity(c)) => last.exc = "FieldConverterError"

\* C5 restricted to calls that did not find an ancestor's cached mapping
C5_WithoutInheritedCache ==
    \A c \in Classes :
        (Called(c) /\ ~last.inherited /\ HasBadArity(c)) =>
            last.exc = "FieldConverterError"

\* C9: once a type's mapping is stored it never changes and no later call on
\* that type scans its members; a call scans and succeeds only while nothing
\* is stored, and stores the mapping.
C9_RegistryComputedOnce ==
    [][\A c \in Classes :
          /\ pyd_converters[c].has =>
                /\ pyd_converters'[c] = pyd_converters[c]
                /\ (last' # last /\ last'.cls = c) => ~last'.scanned
          /\ (last' # last /\ last'.cls = c /\ last'.scanned
                /\ last'.exc # "FieldConverterError") =>
                ~pyd_converters[c].has /\ pyd_converters'[c].has]_vars

\* A call answered from the mapping its own class stored earlier
C9_ServedFromCache ==
    \E c \in Classes :
        /\ Called(c) /\ pyd_converters[c].has
        /\ ~last.scanned /\ ~last.inherited /\ last.exc = "none"

----------------------------------------------------------------------------
(* Threads calling T._pyd_convert concurrently, one bytecode-level step of  *)
(* _pyd_get_converters or _pyd_convert at a time                            *)

Threads == 1..MaxThreads

\* What T's body may declare when threads dispatch on it
ThreadShapes ==
    {[kind |-> "classmethod", prefixed |-> TRUE, args |-> <<"int">>],
     [kind |-> "classmethod", prefixed |-> TRUE, args |-> <<"str">>],
     [kind |-> "classmethod", prefixed |-> FALSE, args |-> <<"int">>]}

\* len(cls.__dict__): the declared members, and the _pyd_converters entry
\* once it has been set on cls itself
DictSize(c) == Len(classdict[c]) + (IF pyd_converters[c].has THEN 1 ELSE 0)

Idle ==
    [pc |-> "idle", iter_size |-> 0, i |-> 0, converters |-> EmptyReg,
     ret |-> EmptyReg, value |-> NoValue, exc |-> "none", result |-> NoResult]

\* A thread enters T._pyd_convert and T._pyd_get_converters
Call(t) ==
    /\ threads[t].pc = "idle"
    /\ threads' = [threads EXCEPT ![t].pc = "check"]
    /\ UNCHANGED <<convVars, xorVars, pathVars, refVars>>

\* if cls._pyd_converters is not None:
CheckCached(t) ==
    /\ threads[t].pc = "check"
    /\ threads' = [threads EXCEPT ![t].pc =
                      IF GetAttr("T", pyd_converters).has THEN "cached" ELSE "iter"]
    /\ UNCHANGED <<convVars, xorVars, pathVars, refVars>>

\* return cls._pyd_converters (the early return)
ReturnCached(t) ==
    /\ threads[t].pc = "cached"
    /\ threads' = [threads EXCEPT ![t].pc = "lookup",
                                  ![t].ret = GetAttr("T", pyd_converters).reg]
    /\ UNCHANGED <<convVars, xorVars, pathVars, refVars>>

\* converters = {}; iter(cls.__dict__.items())
IterStart(t) ==
    /\ threads[t].pc = "iter"
    /\ threads' = [threads EXCEPT ![t].pc = "loop", ![t].i = 1,
                                  ![t].converters = EmptyReg,
                                  ![t].iter_size = DictSize("T")]
    /\ UNCHANGED <<convVars, xorVars, pathVars, refVars>>

\* next() on the items iterator after cls.__dict__ changed size:
\* RuntimeError: dictionary changed size during iteration
IterChangedSize(t) ==
    /\ threads[t].pc = "loop"
    /\ DictSize("T") # threads[t].iter_size
    /\ threads' = [threads EXCEPT ![t].pc = "done", ![t].exc = "RuntimeError"]
    /\ UNCHANGED <<convVars, xorVars, pathVars, refVars>>

\* next() yields an item and the loop body runs on it
LoopBody(t) ==
    /\ threads[t].pc = "loop"
    /\ DictSize("T") = threads[t].iter_size
    /\ threads[t].i <= threads[t].iter_size
    /\ IF threads[t].i > Len(classdict["T"])
       THEN \* the _pyd_converters entry: a dict, not a classmethod
            threads' = [threads EXCEPT ![t].i = @ + 1]
       ELSE LET step == ProcessMember("T", threads[t].i, threads[t].converters) IN
            IF step.exc # "none"
            THEN threads' = [threads EXCEPT ![t].pc = "done", ![t].exc = step.exc]
            ELSE threads' = [threads EXCEPT ![t].i = @ + 1,
                                            ![t].converters = step.converters]
    /\ UNCHANGED <<convVars, xorVars, pathVars, refVars>>

\* next() raises StopIteration: the loop is over
LoopEnd(t) ==
    /\ threads[t].pc = "loop"
    /\ DictSize("T") = threads[t].iter_size
    /\ threads[t].i > threads[t].iter_size
    /\ threads' = [threads EXCEPT ![t].pc = "store"]
    /\ UNCHANGED <<convVars, xorVars, pathVars, refVars>>

\* cls._pyd_converters = converters
StoreConverters(t) ==
    /\ threads[t].pc = "store"
    /\ pyd_converters' = [pyd_converters EXCEPT
                             !["T"] = [has |-> TRUE, reg |-> threads[t].converters]]
    /\ threads' = [threads EXCEPT ![t].pc = "return"]
    /\ UNCHANGED <<classdict, last, xorVars, pathVars, refVars>>

\* return cls._pyd_converters
ReturnStored(t) ==
    /\ threads[t].pc = "return"
    /\ threads' = [threads EXCEPT ![t].pc = "lookup",
                                  ![t].ret = GetAttr("T", pyd_converters).reg]
    /\ UNCHANGED <<convVars, xorVars, pathVars, refVars>>

\* fn = converters[type(value)] ... return fn(cls, value); the argument of
\* the call is not read before this step, so it is drawn here
LookupAndCall(t) ==
    /\ threads[t].pc = "lookup"
    /\ \E v \in Values :
          LET l == Lookup(threads[t].ret, v) IN
          threads' = [threads EXCEPT
                         ![t].pc = "done", ![t].value = v, ![t].exc = l.exc,
                         ![t].result = IF l.exc = "none"
                                       THEN Apply(l.fn, "T", v) ELSE NoResult]
    /\ UNCHANGED <<convVars, xorVars, pathVars, refVars>>

InitThreads ==
    /\ classdict \in {d \in [Classes -> SeqsUpTo(ThreadShapes, MaxThreadMembers)] :
                         d["P"] = <<>>}
    /\ pyd_converters = [c \in Classes |-> NoneCache]
    /\ last = NoCall
    /\ threads = [t \in Threads |-> Idle]
    /\ NoXor /\ NoPath /\ NoRefs

NextThreads ==
    \E t \in Threads :
        \/ Call(t)
        \/ CheckCached(t)
        \/ ReturnCached(t)
        \/ IterStart(t)
        \/ IterChangedSize(t)
        \/ LoopBody(t)
        \/ LoopEnd(t)
        \/ StoreConverters(t)
        \/ ReturnStored(t)
        \/ LookupAndCall(t)

SpecThreads == InitThreads /\ [][NextThreads]_vars

\* What T._pyd_convert(v) returns when calls run one after another
SequentialOutcome(v) ==
    IF HasBadArity("T") \/ HasDuplicate("T")
    THEN [exc |-> "FieldConverterError", result |-> NoResult]
    ELSE IF v.type \in OwnKeys("T")
    THEN [exc |-> "none", result |-> Apply(OwnRegistry("T")[v.type], "T", v)]
    ELSE [exc |-> "TypeError", result |-> NoResult]

Outcome(t) == [exc |-> threads[t].exc, result |-> threads[t].result]

\* The attribute on T is unset or the complete registry of T
CacheUnsetOrComplete ==
    ~pyd_converters["T"].has \/ pyd_converters["T"].reg = OwnRegistry("T")

\* C10 as claimed: with threads racing through the first build of a valid T,
\* the attribute on T is always unset or complete, and every dispatch ends
\* with the outcome a sequential execution gives.
C10_ConcurrentAsSequential ==
    OwnValid("T") =>
        /\ CacheUnsetOrComplete
        /\ \A t \in Threads :
              threads[t].pc = "done" => Outcome(t) = SequentialOutcome(threads[t].value)

\* C10 amended: the attribute on T is always unset or complete, and every
\* dispatch either ends with the sequential outcome or fails with the
\* RuntimeError of a dictionary that changed size during iteration, which
\* happens only to a thread that had started its own scan of T's members.
C10_SequentialOrRuntimeError ==
    OwnValid("T") =>
        /\ CacheUnsetOrComplete
        /\ \A t \in Threads :
              threads[t].pc = "done" =>
                 \/ Outcome(t) = SequentialOutcome(threads[t].value)
                 \/ /\ threads[t].exc = "RuntimeError"
                    /\ threads[t].iter_size = Len(classdict["T"])
                    /\ pyd_converters["T"].has

\* Two racing dispatches on a valid T with a converter: one returned its
\* converter's result, the other died in its scan
C10_RaceSeen ==
    /\ OwnValid("T") /\ OwnKeys("T") # {}
    /\ \E t, u \in Threads :
          /\ threads[t].pc = "done" /\ threads[t].exc = "none"
          /\ threads[t].iter_size = Len(classdict["T"]) /\ threads[t].i > 0
          /\ threads[u].pc = "done" /\ threads[u].exc = "RuntimeError"

----------------------------------------------------------------------------
(* required_xor *)

FieldNames == 1..MaxFields

NoneV == "None"

\* None, a falsy value that is not None, and a truthy value
Vals == {NoneV, "0", "1"}

\* T_MaybeList[str]: one name, or a list of names
MaybeLists ==
    {[kind |-> "one", v |-> n] : n \in FieldNames}
    \cup {[kind |-> "list", v |-> S] : S \in SUBSET FieldNames}

\* floodgate.common.typing.ensure_list: a list as it is, one name as the
\* list holding it
ensure_list(x) == IF x.kind = "one" THEN {x.v} ELSE x.v

\* values.get(name)
Get(vals, name) == IF name \in DOMAIN vals THEN vals[name] ELSE NoneV

\* Mutant: presence tested by truthiness, so that 0 counts as absent
IsTruthy(x) == x \notin {NoneV, "0"}

\* x is not None
IsNotNone(x) == x # NoneV

\* validate_fn(value, values) of the validator required_xor built
xor_validate_fn(value, vals) ==
    LET other_fields_exist ==
            \A name \in xor_other_fields : IsNotNone(Get(vals, name)) IN
    IF other_fields_exist = IsNotNone(value)
    THEN [exc |-> "ValueError", names |-> <<fields, xor_other_fields>>,
          ret |-> NoneV]
    ELSE [exc |-> "none", names |-> <<{}, {}>>, ret |-> value]

\* The framework validated a field the validator is not attached to
SetSibling(n, x) ==
    /\ n \in FieldNames \ fields
    /\ n \notin DOMAIN values
    /\ values' = [m \in DOMAIN values \cup {n} |-> IF m = n THEN x ELSE values[m]]
    /\ UNCHANGED <<fields, xor_other_fields, xlast>>
    /\ UNCHANGED <<convVars, threads, pathVars, refVars>>

\* The framework runs the validator on field f (pre=True, always=True: also
\* when no value was supplied, with None); a value that passes joins values
ValidateField(f, value) ==
    /\ f \in fields
    /\ f \notin DOMAIN values
    /\ LET r == xor_validate_fn(value, values) IN
       /\ xlast' = [field |-> f, value |-> value, exc |-> r.exc,
                    names |-> r.names, ret |-> r.ret]
       /\ values' = IF r.exc = "none"
                    THEN [m \in DOMAIN values \cup {f} |->
                             IF m = f THEN r.ret ELSE values[m]]
                    ELSE values
    /\ UNCHANGED <<fields, xor_other_fields>>
    /\ UNCHANGED <<convVars, threads, pathVars, refVars>>

NoValidation ==
    [field |-> 0, value |-> NoneV, exc |-> "none", names |-> <<{}, {}>>,
     ret |-> NoneV]

InitXor ==
    /\ fields \in {ensure_list(x) : x \in MaybeLists} \ {{}}
    /\ xor_other_fields \in {ensure_list(x) : x \in MaybeLists}
    /\ values = <<>>
    /\ xlast = NoValidation
    /\ NoConv /\ NoPath /\ NoRefs

NextXor ==
    \/ \E n \in FieldNames, x \in Vals : SetSibling(n, x)
    \/ \E f \in FieldNames, x \in Vals : ValidateField(f, x)

SpecXor == InitXor /\ [][NextXor]_vars

\* (ii) of the claim: every field named in B has a non-None entry in values
AllOthersPresent(vals) ==
    \A n \in xor_other_fields : n \in DOMAIN vals /\ vals[n] # NoneV

\* C6: the validator of required_xor(A, B), run on a field of A with `value`
\* and the sibling mapping `values`, returns `value` unchanged iff exactly
\* one of (i) value is not None, (ii) every field of B has a non-None entry
\* in values; otherwise it raises a ValueError naming A and B.
C6_RequiredXor ==
    [][xlast' # xlast =>
          LET exactlyOne == (xlast'.value # NoneV) # AllOthersPresent(values) IN
          /\ xlast'.field \in fields
          /\ exactlyOne =>
                xlast'.exc = "none" /\ xlast'.ret = xlast'.value
          /\ ~exactlyOne =>
                /\ xlast'.exc = "ValueError"
                /\ xlast'.names = <<fields, xor_other_fields>>]_vars

\* The spec's own case, A = {x}, B = {y, z}: x absent, y and z present, passes
C6_OtherSidePasses ==
    /\ Cardinality(fields) = 1 /\ Cardinality(xor_other_fields) = 2
    /\ fields \cap xor_other_fields = {}
    /\ xlast.field \in fields /\ xlast.value = NoneV /\ xlast.exc = "none"
    /\ \A n \in xor_other_fields : n \in DOMAIN values /\ values[n] = "0"

----------------------------------------------------------------------------
(* maybe_relative_path, over pathlib's POSIX paths *)

Chars == {"/", ".", "a"}

\* The strings a path may be given as
Strings == SeqsUpTo(Chars, MaxLen)

RECURSIVE LeadingSlashes(_)
LeadingSlashes(s) ==
    IF s = <<>> \/ Head(s) # "/" THEN 0 ELSE 1 + LeadingSlashes(Tail(s))

\* The pieces of s between its slashes, in order (empty pieces included)
RECURSIVE Split(_, _)
Split(s, piece) ==
    IF s = <<>> THEN <<piece>>
    ELSE IF Head(s) = "/" THEN <<piece>> \o Split(Tail(s), <<>>)
    ELSE Split(Tail(s), Append(piece, Head(s)))

RECURSIVE DropEmptyAndDot(_)
DropEmptyAndDot(pieces) ==
    IF pieces = <<>> THEN <<>>
    ELSE IF Head(pieces) = <<>> \/ Head(pieces) = <<".">>
         THEN DropEmptyAndDot(Tail(pieces))
         ELSE <<Head(pieces)>> \o DropEmptyAndDot(Tail(pieces))

\* Path(s): the root ("", "/", or "//" for exactly two leading slashes) and
\* the components, with empty and "." components dropped
Path(s) ==
    [root |-> IF LeadingSlashes(s) = 0 THEN <<>>
              ELSE IF LeadingSlashes(s) = 2 THEN <<"/", "/">>
              ELSE <<"/">>,
     parts |-> DropEmptyAndDot(Split(s, <<>>))]

\* path.is_absolute()
is_absolute(path) == path.root # <<>>

\* a / b
Join(a, b) ==
    IF is_absolute(b) THEN b
    ELSE [root |-> a.root, parts |-> a.parts \o b.parts]

RECURSIVE JoinParts(_)
JoinParts(parts) ==
    IF parts = <<>> THEN <<>>
    ELSE IF Len(parts) = 1 THEN Head(parts)
    ELSE Head(parts) \o <<"/">> \o JoinParts(Tail(parts))

\* str(path)
Str(path) ==
    IF path.root = <<>> /\ path.parts = <<>> THEN <<".">>
    ELSE path.root \o JoinParts(path.parts)

\* The values a path field may be given: a string or a Path
PathInputs ==
    {[kind |-> "str", s |-> s, p |-> Path(<<>>)] : s \in Strings}
    \cup {[kind |-> "Path", s |-> <<>>, p |-> Path(s)] : s \in Strings}

\* Mutant: the is_absolute test inverted
path_validate_fn_inverted(x) ==
    LET path == IF x.kind # "Path" THEN Path(x.s) ELSE x.p IN
    IF is_absolute(path) THEN Join(root_path, path) ELSE path

\* validate_fn(path) of the validator maybe_relative_path built; the result
\* is always a Path
path_validate_fn(x) ==
    LET path == IF x.kind # "Path" THEN Path(x.s) ELSE x.p IN
    IF ~is_absolute(path) THEN Join(root_path, path) ELSE path

PathFields == {"f", "g"}

NotValidated == [done |-> FALSE, input |-> [kind |-> "none", s |-> <<>>, p |-> Path(<<>>)],
                 out |-> Path(<<>>)]

\* The framework runs the validator on one of its fields, each field once
\* per model built, in either order
ValidatePath(f, x) ==
    /\ ~validated[f].done
    /\ validated' = [validated EXCEPT
                        ![f] = [done |-> TRUE, input |-> x, out |-> path_validate_fn(x)]]
    /\ UNCHANGED root_path
    /\ UNCHANGED <<convVars, threads, xorVars, refVars>>

InitPath ==
    /\ root_path \in {Path(<<"/", "a">>), Path(<<"a">>), Path(<<"/">>)}
    /\ validated = [f \in PathFields |-> NotValidated]
    /\ NoConv /\ NoXor /\ NoRefs

NextPath == \E f \in PathFields, x \in PathInputs : ValidatePath(f, x)

SpecPath == InitPath /\ [][NextPath]_vars

\* Whether the value given names an absolute path
GivenAbsolute(x) ==
    IF x.kind = "str" THEN x.s # <<>> /\ Head(x.s) = "/" ELSE x.p.root # <<>>

\* C7 as claimed: a value that is not absolute comes back as root_path
\* joined with it, an absolute value comes back equal to what was given (for
\* a string, a path that reads as that same string).
C7_AbsoluteUnchanged ==
    \A f \in PathFields :
        validated[f].done =>
            LET x == validated[f].input IN
            IF GivenAbsolute(x)
            THEN IF x.kind = "str" THEN Str(validated[f].out) = x.s
                 ELSE validated[f].out = x.p
            ELSE validated[f].out =
                    Join(root_path, IF x.kind = "str" THEN Path(x.s) ELSE x.p)

\* C7 amended: the result is a Path that depends only on root_path and the
\* field's own value: an absolute Path comes back as it is; an absolute
\* string comes back as the Path parsed from it, its root and its components
\* other than empty and "." ones, which need not read as the string given; a
\* value that is not absolute comes back as root_path followed by its
\* components.
C7_AbsoluteAsPath ==
    \A f \in PathFields :
        validated[f].done =>
            LET x == validated[f].input
                comps == IF x.kind = "str"
                         THEN DropEmptyAndDot(Split(x.s, <<>>)) ELSE x.p.parts
                out == validated[f].out IN
            IF GivenAbsolute(x)
            THEN /\ out.parts = comps
                 /\ out.root # <<>>
                 /\ x.kind = "Path" => out = x.p
                 /\ x.kind = "str" =>
                       out.root = IF LeadingSlashes(x.s) = 2 THEN <<"/", "/">> ELSE <<"/">>
            ELSE out.root = root_path.root /\ out.parts = root_path.parts \o comps

\* Both fields validated, one from a relative string and one from an
\* absolute string that the Path does not read back as
C7_BothKindsSeen ==
    /\ validated["f"].done /\ validated["g"].done
    /\ validated["f"].input.kind = "str" /\ ~GivenAbsolute(validated["f"].input)
    /\ validated["f"].input.s # <<>>
    /\ validated["g"].input.kind = "str" /\ GivenAbsolute(validated["g"].input)
    /\ Str(validated["g"].out) # validated["g"].input.s

----------------------------------------------------------------------------
(* update_forward_refs_recursive, over a tree of nested model types *)

\* The model types of the tree; 1 is the outermost
ModelsOf(tr) == 1..tr.n

\* The model types declared directly inside m
ChildrenOf(tr, m) == {k \in 2..tr.n : tr.par[k] = m}

RECURSIVE Ascending(_)
Ascending(S) ==
    IF S = {} THEN <<>>
    ELSE LET least == CHOOSE k \in S : \A j \in S : k <= j IN
         <<least>> \o Ascending(S \ {least})

RECURSIVE Descending(_)
Descending(S) ==
    IF S = {} THEN <<>>
    ELSE LET most == CHOOSE k \in S : \A j \in S : k >= j IN
         <<most>> \o Descending(S \ {most})

\* model.__dict__.items(): a plain attribute, the nested model types in
\* their declaration order, and an attribute holding a type that is no model
ModelDict(tr, m) ==
    LET nested == IF tr.order = "asc" THEN Ascending(ChildrenOf(tr, m))
                  ELSE Descending(ChildrenOf(tr, m)) IN
    <<[kind |-> "value", id |-> 0]>>
    \o [j \in 1..Len(nested) |-> [kind |-> "model", id |-> nested[j]]]
    \o <<[kind |-> "type", id |-> 0]>>

\* Mutant: isinstance(value, BaseModel), true of no class
IsModelInstance(value) == value.kind = "instance"

\* isinstance(value, type) and issubclass(value, BaseModel)
IsNestedModel(value) == value.kind = "model"

Top == stack[Len(stack)]

Pop == SubSeq(stack, 1, Len(stack) - 1)

\* update_forward_refs_recursive(value) for the next attribute of the loop
Recurse ==
    /\ stack # <<>>
    /\ Top.i <= Len(ModelDict(tree, Top.model))
    /\ IsNestedModel(ModelDict(tree, Top.model)[Top.i])
    /\ stack' = Append([stack EXCEPT ![Len(stack)].i = @ + 1],
                       [model |-> ModelDict(tree, Top.model)[Top.i].id, i |-> 1])
    /\ UNCHANGED <<tree, log>>
    /\ UNCHANGED <<convVars, threads, xorVars, pathVars>>

\* The next attribute is no model type: the loop goes on
SkipAttribute ==
    /\ stack # <<>>
    /\ Top.i <= Len(ModelDict(tree, Top.model))
    /\ ~IsNestedModel(ModelDict(tree, Top.model)[Top.i])
    /\ stack' = [stack EXCEPT ![Len(stack)].i = @ + 1]
    /\ UNCHANGED <<tree, log>>
    /\ UNCHANGED <<convVars, threads, xorVars, pathVars>>

\* model.update_forward_refs(**model.__dict__), then the call returns
UpdateForwardRefs ==
    /\ stack # <<>>
    /\ Top.i > Len(ModelDict(tree, Top.model))
    /\ log' = Append(log, Top.model)
    /\ stack' = Pop
    /\ UNCHANGED tree
    /\ UNCHANGED <<convVars, threads, xorVars, pathVars>>

\* Every tree of up to MaxNodes model types, update_forward_refs_recursive
\* just called on its outermost type
InitRefs ==
    /\ tree \in {[n |-> n, par |-> par, order |-> o] :
                    n \in 1..MaxNodes, o \in {"asc", "desc"},
                    par \in [2..MaxNodes -> 0..MaxNodes]} 
    /\ \A k \in 2..MaxNodes :
          IF k <= tree.n THEN tree.par[k] \in 1..(k - 1) ELSE tree.par[k] = 0
    /\ stack = <<[model |-> 1, i |-> 1]>>
    /\ log = <<>>
    /\ NoConv /\ NoXor /\ NoPath

NextRefs == Recurse \/ SkipAttribute \/ UpdateForwardRefs

SpecRefs == InitRefs /\ [][NextRefs]_vars

\* k is nested, directly or transitively, inside m
RECURSIVE NestedIn(_, _, _)
NestedIn(tr, k, m) ==
    /\ k > 1
    /\ \/ tr.par[k] = m
       \/ NestedIn(tr, tr.par[k], m)

Position(m) == CHOOSE j \in 1..Len(log) : log[j] = m

Resolved == {log[j] : j \in 1..Len(log)}

\* C8: update_forward_refs is called on every type of the tree, on each type
\* only after the calls on all types nested inside it, so on the root last.
C8_ChildrenBeforeParent ==
    /\ \A j, k \in 1..Len(log) : log[j] = log[k] => j = k
    /\ \A m \in Resolved : \A k \in ModelsOf(tree) :
          NestedIn(tree, k, m) => k \in Resolved /\ Position(k) < Position(m)
    /\ stack = <<>> =>
          /\ Resolved = ModelsOf(tree)
          /\ log[Len(log)] = 1

\* A tree three levels deep, fully resolved
C8_ThreeLevelsResolved ==
    /\ stack = <<>>
    /\ \E k, m \in ModelsOf(tree) : NestedIn(tree, k, m) /\ NestedIn(tree, m, 1)
    /\ Len(log) = tree.n

====
